---------------------------- MODULE Spec2Model ----------------------------
(***************************************************************************)
(* Mood Playlist: language detection, emotion-label prediction (model or   *)
(* lexicon), label normalisation, the model/lexicon arbitration, and the   *)
(* mood-filtered recommender, as state machines over the Python sources.   *)
(*                                                                         *)
(* Two representations of Python str are used.  A label, a mood, a source, *)
(* a language code and a catalog field is a TLA+ string (ASCII).  A text   *)
(* typed by the user may hold Persian, so a text is a sequence of Unicode  *)
(* code points (naturals).                                                 *)
(***************************************************************************)
EXTENDS Naturals, Integers, Sequences, FiniteSets, TLC

VARIABLES
    arg,               \* the arguments of the pure function being applied
    out,               \* its result, NotCalled before the call
    use_transformers,  \* TextEmotionClassifier.use_transformers
    pipelines,         \* TextEmotionClassifier.pipelines: languages with a loaded model
    id2label,          \* TextEmotionClassifier.id2label: language -> (index -> label)
    load_outcome,      \* what startup met: the import and each language's load
    resp,              \* the last predict request and its response
    raised_before,     \* languages whose inference raised in an earlier request
    catalog,           \* Recommender.catalog
    catalog0,          \* the catalog as loaded at startup
    rec_call,          \* the last recommend / get_stats call and its result
    req                \* the requests in flight: thread -> frame of the pipeline

vars == <<arg, out, use_transformers, pipelines, id2label, load_outcome, resp,
          raised_before, catalog, catalog0, rec_call, req>>

\* Python's None.
None == "None"

\* The marker of a call not made yet.
NotCalled == [kind |-> "not_called"]

\* A call that returned v.
Returned(v) == [kind |-> "returned", value |-> v]

\* The empty dict.
EmptyDict == [k \in {} |-> k]

\* The element of a one-element set.  {e(v) : v \in {x}} evaluates x once
\* and names its value v in e, which is how a local variable of the code
\* that is read several times is written here.
The(S) == CHOOSE x \in S : TRUE

Min(a, b) == IF a <= b THEN a ELSE b

Max(a, b) == IF a >= b THEN a ELSE b

(***************************************************************************)
(* str methods on labels (TLA+ strings).                                   *)
(***************************************************************************)

\* The one-character string at position i of s.
CharAt(s, i) == SubSeq(s, i, i)

\* The ASCII characters for which str.isspace() holds and that a TLA+ string
\* can carry.
AsciiSpace == {" ", "\t", "\n", "\f", "\r"}

UpperAlpha == "ABCDEFGHIJKLMNOPQRSTUVWXYZ"

LowerAlpha == "abcdefghijklmnopqrstuvwxyz"

\* str.lower() of one ASCII character.
LowerChar(c) ==
    IF \E i \in 1..Len(UpperAlpha) : CharAt(UpperAlpha, i) = c
    THEN CharAt(LowerAlpha, CHOOSE i \in 1..Len(UpperAlpha) : CharAt(UpperAlpha, i) = c)
    ELSE c

RECURSIVE StrLower(_)
\* str.lower()
StrLower(s) ==
    IF Len(s) = 0 THEN ""
    ELSE LowerChar(CharAt(s, 1)) \o StrLower(SubSeq(s, 2, Len(s)))

\* str.upper() of one ASCII character.
UpperChar(c) ==
    IF \E i \in 1..Len(LowerAlpha) : CharAt(LowerAlpha, i) = c
    THEN CharAt(UpperAlpha, CHOOSE i \in 1..Len(LowerAlpha) : CharAt(LowerAlpha, i) = c)
    ELSE c

RECURSIVE StrUpper(_)
\* str.upper()
StrUpper(s) ==
    IF Len(s) = 0 THEN ""
    ELSE UpperChar(CharAt(s, 1)) \o StrUpper(SubSeq(s, 2, Len(s)))

\* str.strip(): the leading and trailing whitespace removed.
StrStrip(s) ==
    LET keep == {i \in 1..Len(s) : CharAt(s, i) \notin AsciiSpace}
    IN  IF keep = {} THEN ""
        ELSE SubSeq(s, CHOOSE i \in keep : \A j \in keep : i <= j,
                       CHOOSE i \in keep : \A j \in keep : i >= j)

\* `key in s` for two str: key occurs as a substring of s.
StrContains(s, key) ==
    \E i \in 1..(Len(s) + 1) :
        /\ i + Len(key) - 1 <= Len(s)
        /\ SubSeq(s, i, i + Len(key) - 1) = key

\* s.startswith(prefix)
StartsWith(s, prefix) ==
    Len(prefix) <= Len(s) /\ SubSeq(s, 1, Len(prefix)) = prefix

(***************************************************************************)
(* mapping.py                                                              *)
(***************************************************************************)

SUPPORTED_MOODS == {"joy", "sadness", "anger", "fear", "neutral", "excitement"}

\* The dict literal in declaration order, each entry <<key, mood>>.
LABEL_MAP ==
    << <<"joy", "joy">>, <<"happy", "joy">>, <<"happiness", "joy">>,
       <<"love", "joy">>, <<"cheerful", "joy">>, <<"delighted", "joy">>,
       <<"admiration", "joy">>,
       <<"sad", "sadness">>, <<"sadness", "sadness">>, <<"grief", "sadness">>,
       <<"sorrow", "sadness">>, <<"disappointment", "sadness">>,
       <<"anger", "anger">>, <<"angry", "anger">>, <<"rage", "anger">>,
       <<"hatred", "anger">>, <<"hate", "anger">>, <<"annoyance", "anger">>,
       <<"furious", "anger">>,
       <<"fear", "fear">>, <<"scared", "fear">>, <<"frightened", "fear">>,
       <<"anxious", "fear">>, <<"nervous", "fear">>,
       <<"excitement", "excitement">>, <<"excited", "excitement">>,
       <<"surprise", "excitement">>, <<"surprised", "excitement">>,
       <<"wonder", "excitement">>, <<"amazed", "excitement">>,
       <<"enthusiasm", "excitement">>,
       <<"neutral", "neutral">>, <<"no emotion", "neutral">>,
       <<"other", "neutral">> >>

\* `label_norm in LABEL_MAP`
InLabelMap(label_norm) == \E i \in 1..Len(LABEL_MAP) : LABEL_MAP[i][1] = label_norm

\* LABEL_MAP[label_norm]
LabelMapGet(label_norm) ==
    LABEL_MAP[CHOOSE i \in 1..Len(LABEL_MAP) : LABEL_MAP[i][1] = label_norm][2]

RECURSIVE SubstringScan(_, _)
\* The loop `for key, val in LABEL_MAP.items(): if key in label_norm: return val`
\* from entry i on, and the `return "neutral"` after it.
SubstringScan(label_norm, i) ==
    IF i > Len(LABEL_MAP) THEN "neutral"
    ELSE IF StrContains(label_norm, LABEL_MAP[i][1]) THEN LABEL_MAP[i][2]
    ELSE SubstringScan(label_norm, i + 1)

\* Lines 58-66 of map_label_to_mood, on the normalised label.
LookupMood(label_norm) ==
    IF InLabelMap(label_norm) THEN LabelMapGet(label_norm)
    ELSE SubstringScan(label_norm, 1)

\* A faulty variant: the label is not lowercased before the lookup.
map_label_to_mood_nolower(language, label) ==
    The({LookupMood(label_norm) : label_norm \in {StrStrip(label)}})

map_label_to_mood(language, label) ==
    The({LookupMood(label_norm) : label_norm \in {StrLower(StrStrip(label))}})

(***************************************************************************)
(* str methods on texts (sequences of code points).                        *)
(***************************************************************************)

\* The printable ASCII characters U+0020..U+005F, the one of code point c at
\* index c - 31.
AsciiLow == " !\"#$%&'()*+,-./0123456789:;<=>?@ABCDEFGHIJKLMNOPQRSTUVWXYZ[\\]^_"

\* The printable ASCII characters U+0061..U+007E, the one of code point c at
\* index c - 96.
AsciiHigh == "abcdefghijklmnopqrstuvwxyz{|}~"

\* ord(c) of a printable ASCII character other than the grave accent.
Ord(c) ==
    IF \E i \in 1..Len(AsciiLow) : CharAt(AsciiLow, i) = c
    THEN 31 + (CHOOSE i \in 1..Len(AsciiLow) : CharAt(AsciiLow, i) = c)
    ELSE 96 + (CHOOSE i \in 1..Len(AsciiHigh) : CharAt(AsciiHigh, i) = c)

\* The text (code points) of an ASCII string.
Text(s) == [i \in 1..Len(s) |-> Ord(CharAt(s, i))]

\* The code points below U+3100 for which str.isspace() holds.
UnicodeSpace ==
    (9..13) \cup (28..32) \cup {133, 160, 5760} \cup (8192..8202)
        \cup {8232, 8233, 8239, 8287, 12288}

\* str.strip() of a text.
TextStrip(t) ==
    LET keep == {i \in 1..Len(t) : t[i] \notin UnicodeSpace}
    IN  IF keep = {} THEN <<>>
        ELSE SubSeq(t, CHOOSE i \in keep : \A j \in keep : i <= j,
                       CHOOSE i \in keep : \A j \in keep : i >= j)

\* str.lower() of a text of ASCII, Latin-1 and Arabic-block characters: A-Z
\* and the Latin-1 capitals move 32 up, nothing else has a lowercase.
TextLower(t) ==
    [i \in 1..Len(t) |->
        IF t[i] \in (65..90) \cup ((192..222) \ {215}) THEN t[i] + 32 ELSE t[i]]

\* `word in txt` for two texts.
TextContains(txt, word) ==
    \E i \in 1..(Len(txt) + 1 - Len(word)) :
        \A k \in 1..Len(word) : txt[i + k - 1] = word[k]

(***************************************************************************)
(* language.py                                                             *)
(***************************************************************************)

\* LanguageDetector.supported
supported == {"fa", "en"}

\* The character class [U+0600-U+06FF] of _persian_pattern.
PersianRange == 1536..1791

\* _persian_pattern.search(cleaned) finds a match.
PersianSearch(cleaned) == \E i \in 1..Len(cleaned) : cleaned[i] \in PersianRange

\* A faulty variant: the statistical detector's answer is returned as it is.
detect_uncoerced(text, langdetect) ==
    LET cleaned == TextStrip(text)
    IN  IF cleaned = <<>> THEN "en"
        ELSE IF PersianSearch(cleaned) THEN "fa"
        ELSE IF langdetect.kind = "raise" THEN "en"
        ELSE langdetect.value

\* LanguageDetector.detect; langdetect is what langdetect.detect(cleaned)
\* does when it is called: [kind |-> "return", value |-> code] or
\* [kind |-> "raise", exc |-> "LangDetectException"].
detect(text, langdetect) ==
    LET cleaned == TextStrip(text)
    IN  IF cleaned = <<>> THEN "en"
        ELSE IF PersianSearch(cleaned) THEN "fa"
        ELSE IF langdetect.kind = "raise" THEN "en"
        ELSE IF langdetect.value \in supported THEN langdetect.value ELSE "en"

\* Whether detect reaches langdetect.detect (line 20) on this text.
detect_calls(text) ==
    IF TextStrip(text) # <<>> /\ ~PersianSearch(TextStrip(text))
    THEN {"langdetect"} ELSE {}

(***************************************************************************)
(* emotion_classifier.py: the tables                                       *)
(***************************************************************************)

\* DEFAULT_MODELS.keys()
DEFAULT_MODELS == {"en", "fa"}

ARMANEMO_LABELS ==
    [i \in 0..6 |->
        CASE i = 0 -> "anger"   [] i = 1 -> "fear"    [] i = 2 -> "joy"
          [] i = 3 -> "anger"   [] i = 4 -> "neutral" [] i = 5 -> "sadness"
          [] i = 6 -> "excitement"]

\* pipe.model.config.id2label of the English model, when its config has one.
EN_CONFIG_ID2LABEL ==
    [i \in 0..5 |->
        CASE i = 0 -> "sadness" [] i = 1 -> "joy"  [] i = 2 -> "love"
          [] i = 3 -> "anger"   [] i = 4 -> "fear" [] i = 5 -> "surprise"]

\* The moods of a lexicon in the order of its dict literal.
LexiconOrder == <<"joy", "sadness", "anger", "fear", "neutral", "excitement">>

ENGLISH_LEXICON ==
    [joy        |-> <<Text("happy"), Text("joy"), Text("grateful"), Text("great"),
                      Text("awesome"), Text("good"), Text("love")>>,
     sadness    |-> <<Text("sad"), Text("down"), Text("blue"), Text("upset"),
                      Text("depressed"), Text("cry")>>,
     anger      |-> <<Text("angry"), Text("mad"), Text("furious"), Text("irritated"),
                      Text("rage"), Text("hate")>>,
     fear       |-> <<Text("afraid"), Text("scared"), Text("anxious"), Text("worried"),
                      Text("nervous")>>,
     neutral    |-> <<Text("ok"), Text("fine"), Text("meh"), Text("normal")>>,
     excitement |-> <<Text("excited"), Text("hyped"), Text("stoked"), Text("thrilled"),
                      Text("pumped")>>]

PERSIAN_LEXICON ==
    [joy |-> <<
        <<1582, 1608, 1588, 1581, 1575, 1604>>,                \* خوشحال
        <<1588, 1575, 1583>>,                                  \* شاد
        <<1582, 1608, 1576>>,                                  \* خوب
        <<1593, 1575, 1604, 1740>>,                            \* عالی
        <<1585, 1575, 1590, 1740>>,                            \* راضی
        <<1593, 1588, 1602>>,                                  \* عشق
        <<1582, 1606, 1583, 1607>> >>,                         \* خنده
     sadness |-> <<
        <<1594, 1605, 1711, 1740, 1606>>,                      \* غمگین
        <<1606, 1575, 1585, 1575, 1581, 1578>>,                \* ناراحت
        <<1576, 1740, 32, 1581, 1608, 1589, 1604, 1607>>,      \* بی حوصله
        <<1583, 1604, 1711, 1740, 1585>>,                      \* دلگیر
        <<1711, 1585, 1740, 1607>>,                            \* گریه
        <<1594, 1589, 1607>>,                                  \* غصه
        <<1576, 1583, 1576, 1582, 1578>> >>,                   \* بدبخت
     anger |-> <<
        <<1593, 1589, 1576, 1575, 1606, 1740>>,                \* عصبانی
        <<1582, 1588, 1605>>,                                  \* خشم
        <<1581, 1585, 1589>>,                                  \* حرص
        <<1705, 1604, 1575, 1601, 1607>>,                      \* کلافه
        <<1605, 1578, 1606, 1601, 1585>>,                      \* متنفر
        <<1583, 1593, 1608, 1575>> >>,                         \* دعوا
     fear |-> <<
        <<1605, 1740, 32, 1578, 1585, 1587, 1605>>,            \* می ترسم
        <<1578, 1585, 1587>>,                                  \* ترس
        <<1575, 1587, 1578, 1585, 1587>>,                      \* استرس
        <<1606, 1711, 1585, 1575, 1606>>,                      \* نگران
        <<1608, 1581, 1588, 1578>> >>,                         \* وحشت
     neutral |-> <<
        <<1605, 1593, 1605, 1608, 1604, 1740>>,                \* معمولی
        <<1576, 1583, 32, 1606, 1740, 1587, 1578>>,            \* بد نیست
        <<1575, 1608, 1705, 1740>>,                            \* اوکی
        <<1606, 1585, 1605, 1575, 1604>>,                      \* نرمال
        <<1587, 1604, 1575, 1605>> >>,                         \* سلام
     excitement |-> <<
        <<1607, 1740, 1580, 1575, 1606>>,                      \* هیجان
        <<1605, 1578, 1581, 1605, 1587>>,                      \* متحمس
        <<1584, 1608, 1602>>,                                  \* ذوق
        <<1575, 1606, 1585, 1688, 1740>>,                      \* انرژی
        <<1576, 1575, 1581, 1575, 1604>> >>]                   \* باحال

(***************************************************************************)
(* emotion_classifier.py: TextEmotionClassifier                            *)
(***************************************************************************)

\* scores after the two loops of _lexicon_label: for each label, how many of
\* its keywords occur in txt.
Scores(lexicon, txt) ==
    [label \in DOMAIN lexicon |->
        Cardinality({i \in 1..Len(lexicon[label]) : TextContains(txt, lexicon[label][i])})]

\* A faulty variant: of the labels with the highest score the last one, in
\* dict order, is taken.
BestLabel_last(scores) ==
    LET best == CHOOSE i \in 1..Len(LexiconOrder) :
                    /\ \A j \in 1..Len(LexiconOrder) :
                          scores[LexiconOrder[j]] <= scores[LexiconOrder[i]]
                    /\ \A j \in (i + 1)..Len(LexiconOrder) :
                          scores[LexiconOrder[j]] < scores[LexiconOrder[i]]
    IN  LexiconOrder[best]

\* max(scores.items(), key=lambda x: x[1])[0]: the first label, in dict
\* order, whose score no label exceeds.
BestLabel(scores) ==
    LET best == CHOOSE i \in 1..Len(LexiconOrder) :
                    /\ \A j \in 1..Len(LexiconOrder) :
                          scores[LexiconOrder[j]] <= scores[LexiconOrder[i]]
                    /\ \A j \in 1..(i - 1) :
                          scores[LexiconOrder[j]] < scores[LexiconOrder[i]]
    IN  LexiconOrder[best]

_lexicon_label(text, language) ==
    LET lexicon == IF language = "fa" THEN PERSIAN_LEXICON ELSE ENGLISH_LEXICON
    IN  The({The({IF scores[best_label] = 0 THEN "neutral" ELSE best_label :
                    best_label \in {BestLabel(scores)}}) :
                scores \in {The({Scores(lexicon, txt) : txt \in {TextLower(text)}})}})

Digits == "0123456789"

IsDigit(c) == \E i \in 1..Len(Digits) : CharAt(Digits, i) = c

RECURSIVE DigitsValue(_)
\* The number a non-empty string of decimal digits denotes.
DigitsValue(s) ==
    IF Len(s) = 0 THEN 0
    ELSE 10 * DigitsValue(SubSeq(s, 1, Len(s) - 1))
         + ((CHOOSE i \in 1..Len(Digits) : CharAt(Digits, i) = CharAt(s, Len(s))) - 1)

\* int(s) for an ASCII str without underscores: surrounding whitespace and
\* one sign are allowed around a non-empty run of digits, anything else is a
\* ValueError.
ParseInt(s) ==
    LET t      == StrStrip(s)
        signed == Len(t) > 0 /\ CharAt(t, 1) \in {"+", "-"}
        digits == IF signed THEN SubSeq(t, 2, Len(t)) ELSE t
    IN  IF Len(digits) > 0 /\ \A i \in 1..Len(digits) : IsDigit(CharAt(digits, i))
        THEN [ok |-> TRUE,
              value |-> IF signed /\ CharAt(t, 1) = "-"
                        THEN 0 - DigitsValue(digits) ELSE DigitsValue(digits)]
        ELSE [ok |-> FALSE, value |-> 0]

\* label.split("_")[-1]: what follows the last underscore.
AfterLastUnderscore(label) ==
    LET us == {i \in 1..Len(label) : CharAt(label, i) = "_"}
    IN  IF us = {} THEN label
        ELSE SubSeq(label, (CHOOSE i \in us : \A j \in us : i >= j) + 1, Len(label))

\* _resolve_label with self.id2label = table.
_resolve_label(table, label, lang) ==
    IF StartsWith(StrUpper(label), "LABEL_") /\ lang \in DOMAIN table
    THEN The({IF ~idx.ok THEN label
              ELSE IF idx.value \in DOMAIN table[lang] THEN table[lang][idx.value]
              ELSE label :
                idx \in {ParseInt(AfterLastUnderscore(label))}})
    ELSE label

\* A faulty variant: the positive override is forgotten.
_resolve_with_lexicon_nopos(tf_label, tf_mood, lex_label, lex_mood) ==
    IF tf_mood = lex_mood THEN <<tf_label, tf_mood, "transformer">>
    ELSE IF lex_mood \in {"anger", "sadness", "fear"}
            /\ tf_mood \in {"neutral", "joy", "excitement"}
    THEN <<lex_label, lex_mood, "lexicon_override_neg">>
    ELSE <<tf_label, tf_mood, "transformer">>

_resolve_with_lexicon(tf_label, tf_mood, lex_label, lex_mood) ==
    IF tf_mood = lex_mood THEN <<tf_label, tf_mood, "transformer">>
    ELSE IF lex_mood \in {"anger", "sadness", "fear"}
            /\ tf_mood \in {"neutral", "joy", "excitement"}
    THEN <<lex_label, lex_mood, "lexicon_override_neg">>
    ELSE IF lex_mood \in {"joy", "excitement"}
            /\ tf_mood \in {"sadness", "anger", "fear", "neutral"}
    THEN <<lex_label, lex_mood, "lexicon_override_pos">>
    ELSE <<tf_label, tf_mood, "transformer">>

(***************************************************************************)
(* What self.pipelines[language](cleaned) does is an input of predict:     *)
(*   [kind |-> "raise"]                     it raises                      *)
(*   [kind |-> "return", outputs |-> o]     it returns the list o          *)
(* An element of o is a dict, [type |-> "dict", has_label, label], or a    *)
(* list of dicts, [type |-> "list", items |-> <<dict, ...>>].              *)
(***************************************************************************)

Dict(label) == [type |-> "dict", has_label |-> TRUE, label |-> label]

DictWithoutLabel == [type |-> "dict", has_label |-> FALSE, label |-> ""]

List(items) == [type |-> "list", items |-> items]

\* Lines 96-97: the first result of the outputs and its raw label;
\* [ok |-> FALSE] when an index is out of range (IndexError).
RawLabel(outputs) ==
    IF Len(outputs) > 0 /\ outputs[1].type = "dict"
    THEN [ok |-> TRUE,
          label |-> IF outputs[1].has_label THEN outputs[1].label ELSE "neutral"]
    ELSE IF Len(outputs) = 0 THEN [ok |-> FALSE, label |-> ""]
    ELSE IF Len(outputs[1].items) = 0 THEN [ok |-> FALSE, label |-> ""]
    ELSE LET result == outputs[1].items[1]
         IN  [ok |-> TRUE,
              label |-> IF result.has_label THEN result.label ELSE "neutral"]

\* The try block of predict raises: the inference itself, or the indexing of
\* what it returned.
TryRaises(inference) ==
    inference.kind = "raise" \/ ~RawLabel(inference.outputs).ok

\* Lines 103-105: the mood of the resolved label, and the arbitration.
Chosen(language, resolved_label, lex_label, lex_mood) ==
    The({[label |-> chosen[1], mood |-> chosen[2], source |-> chosen[3]] :
            chosen \in {_resolve_with_lexicon(resolved_label,
                                              map_label_to_mood(language, resolved_label),
                                              lex_label, lex_mood)}})

\* The try block's return value when nothing raises.
Arbitrated(table, language, inference, lex_label, lex_mood) ==
    The({Chosen(language, resolved_label, lex_label, lex_mood) :
            resolved_label \in
                {_resolve_label(table, RawLabel(inference.outputs).label, language)}})

\* Lines 93-110, after the lexicon result is known.
ModelOrLexicon(self, language, inference, lex_label, lex_mood) ==
    IF self.use_transformers /\ language \in self.pipelines /\ ~TryRaises(inference)
    THEN Arbitrated(self.id2label, language, inference, lex_label, lex_mood)
    ELSE [label |-> lex_label, mood |-> lex_mood, source |-> "lexicon"]

\* Lines 90-110, on the stripped text.
PredictCleaned(self, cleaned, language, inference) ==
    The({ModelOrLexicon(self, language, inference, lex_label,
                        map_label_to_mood(language, lex_label)) :
            lex_label \in {_lexicon_label(cleaned, language)}})

\* A faulty variant: the blank-text test comes after the model branch.
predict_blank_late(self, text, language, inference) ==
    The({IF self.use_transformers /\ language \in self.pipelines
            /\ ~TryRaises(inference)
         THEN PredictCleaned(self, cleaned, language, inference)
         ELSE IF cleaned = <<>>
         THEN [label |-> "neutral", mood |-> "neutral", source |-> "fallback"]
         ELSE PredictCleaned(self, cleaned, language, inference) :
            cleaned \in {TextStrip(text)}})

\* TextEmotionClassifier.predict; self is the classifier's state
\* [use_transformers, pipelines, id2label].
predict(self, text, language, inference) ==
    The({IF cleaned = <<>>
         THEN [label |-> "neutral", mood |-> "neutral", source |-> "fallback"]
         ELSE PredictCleaned(self, cleaned, language, inference) :
            cleaned \in {TextStrip(text)}})

\* A faulty variant: a language whose load failed keeps its entry in pipelines.
_load_pipelines_nopop(met) ==
    IF ~met.import_ok
    THEN [use_transformers |-> FALSE, pipelines |-> {}, id2label |-> EmptyDict]
    ELSE [use_transformers |-> TRUE,
          pipelines |-> DEFAULT_MODELS,
          id2label |->
            [lang \in {l \in DEFAULT_MODELS :
                          met.loaded[l] /\ (l = "fa" \/ met.en_has_id2label)} |->
                IF lang = "fa" THEN ARMANEMO_LABELS ELSE EN_CONFIG_ID2LABEL]]

\* _load_pipelines, called with use_transformers = True, empty pipelines and
\* id2label; met is what startup meets: whether transformers imports, whether
\* each language's model loads, and whether the English config has id2label.
_load_pipelines(met) ==
    IF ~met.import_ok
    THEN [use_transformers |-> FALSE, pipelines |-> {}, id2label |-> EmptyDict]
    ELSE LET loaded == {l \in DEFAULT_MODELS : met.loaded[l]}
         IN  [use_transformers |-> loaded # {},
              pipelines |-> loaded,
              id2label |->
                [lang \in {l \in loaded : l = "fa" \/ met.en_has_id2label} |->
                    IF lang = "fa" THEN ARMANEMO_LABELS ELSE EN_CONFIG_ID2LABEL]]

\* TextEmotionClassifier.__init__
TextEmotionClassifier(use_transformers_arg, met) ==
    IF use_transformers_arg THEN _load_pipelines(met)
    ELSE [use_transformers |-> FALSE, pipelines |-> {}, id2label |-> EmptyDict]

(***************************************************************************)
(* recommender.py                                                          *)
(*                                                                         *)
(* A catalog item is a JSON object: a function from its keys to strings.   *)
(* A Python list variable is [aliases_catalog, items]: whether the name    *)
(* refers to the list object self.catalog or to a list of its own, and the *)
(* items of that list.                                                     *)
(***************************************************************************)

\* The fields of the dataclass Recommendation.
RecommendationFields == {"title", "creator", "type", "mood", "language"}

\* dict.get(key, default)
Get(item, key, default) == IF key \in DOMAIN item THEN item[key] ELSE default

RECURSIVE WhereEq(_, _, _)
\* [item for item in items if item.get(key) == value]
WhereEq(items, key, value) ==
    IF Len(items) = 0 THEN <<>>
    ELSE (IF Get(Head(items), key, None) = value THEN <<Head(items)>> ELSE <<>>)
         \o WhereEq(Tail(items), key, value)

\* Lines 66-67 of recommend.
EffectiveMood(mood) == IF mood \in SUPPORTED_MOODS THEN mood ELSE "neutral"

\* A faulty variant: the mood filter hands the catalog's own list on when every item
\* passes it.
FilterByMood_aliasing(cat, mood) ==
    The({[aliases_catalog |-> (kept = cat), items |-> kept] :
            kept \in {WhereEq(cat, "mood", EffectiveMood(mood))}})

\* Lines 66-70: the comprehension over self.catalog builds a new list.
FilterByMood(cat, mood) ==
    [aliases_catalog |-> FALSE, items |-> WhereEq(cat, "mood", EffectiveMood(mood))]

\* Lines 72-74: `if media_type:` is false of None and of the empty string.
FilterByType(filtered, media_type) ==
    IF media_type # None /\ media_type # ""
    THEN [aliases_catalog |-> FALSE, items |-> WhereEq(filtered.items, "type", media_type)]
    ELSE filtered

\* Lines 76-78.
FilterByLanguage(filtered, response_language) ==
    IF response_language \in {"fa", "en"}
    THEN [aliases_catalog |-> FALSE,
          items |-> WhereEq(filtered.items, "language", response_language)]
    ELSE filtered

\* Lines 66-78: `filtered` as random.shuffle receives it.
Filtered(cat, mood, media_type, response_language) ==
    FilterByLanguage(FilterByType(FilterByMood(cat, mood), media_type),
                     response_language)

\* The orders random.shuffle can leave a list in: all of them.
Shuffles(items) ==
    {[i \in 1..Len(items) |-> items[p[i]]] :
        p \in {q \in [1..Len(items) -> 1..Len(items)] :
                 \A i, j \in 1..Len(items) : q[i] = q[j] => i = j}}

\* The items of the list object a list variable names.
ListItems(cat, filtered) ==
    IF filtered.aliases_catalog THEN cat ELSE filtered.items

\* Line 80: random.shuffle works in place, on the list object its argument
\* names.  The catalog after the shuffle left `filtered` as `shuffled`.
ShuffleInPlace(cat, filtered, shuffled) ==
    IF filtered.aliases_catalog THEN shuffled ELSE cat

\* A faulty variant: limit is taken for an index, so one item more is kept.
Picks_inclusive(items, limit) ==
    IF limit >= 0 THEN SubSeq(items, 1, Min(limit + 1, Len(items)))
    ELSE SubSeq(items, 1, Max(0, Len(items) + limit))

\* filtered[:limit]
Picks(items, limit) ==
    IF limit >= 0 THEN SubSeq(items, 1, Min(limit, Len(items)))
    ELSE SubSeq(items, 1, Max(0, Len(items) + limit))

\* Line 82: [Recommendation(**item) for item in picks].  The dataclass takes
\* exactly its five fields as keywords; a missing or an unexpected keyword
\* raises TypeError.
Recommendations(picks) ==
    IF \A i \in 1..Len(picks) : DOMAIN picks[i] = RecommendationFields
    THEN [kind |-> "returned", value |-> picks]
    ELSE [kind |-> "raised", value |-> "TypeError"]

\* The tally `d[k] = d.get(k, 0) + 1` of item.get(key, default) over the catalog.
Tally(cat, key, default) ==
    [k \in {Get(cat[i], key, default) : i \in 1..Len(cat)} |->
        Cardinality({i \in 1..Len(cat) : Get(cat[i], key, default) = k})]

\* Recommender.get_stats
get_stats(cat) ==
    [moods |-> Tally(cat, "mood", "neutral"), languages |-> Tally(cat, "language", "en")]

(***************************************************************************)
(* app.py: the /predict handler's coercions (lines 171-180).               *)
(***************************************************************************)

\* A faulty variant: the form value is passed on as it is.
CoerceMediaType_passthrough(media_type) == media_type

\* Lines 171-173.
CoerceMediaType(media_type) ==
    IF media_type \in {"song", "movie"} THEN media_type ELSE None

\* Line 179.
CoerceResponseLanguage(response_language) ==
    IF response_language \in {"fa", "en"} THEN response_language ELSE None

\* The collaborators one predict call consults, from its control flow: none
\* on blank text, else the lexicon, and the model when one is loaded.
predict_calls(self, text, language) ==
    IF TextStrip(text) = <<>> THEN {}
    ELSE IF self.use_transformers /\ language \in self.pipelines
    THEN {"lexicon", "model"}
    ELSE {"lexicon"}

(***************************************************************************)
(* The inputs of the checks.                                               *)
(***************************************************************************)

\* How many pieces a label is made of, at most.
MaxLabelParts == 2

LabelPieces ==
    {"joy", "sad", "sadness", "anger", "fear", "neutral", "excitement", "Happy",
     "hatred", "no emotion", "surprised", "LOVE", "X", " "}

RECURSIVE LabelsOf(_)
\* The labels made of at most n pieces.
LabelsOf(n) ==
    IF n = 0 THEN {""}
    ELSE LabelsOf(n - 1) \cup {a \o b : a \in LabelsOf(n - 1), b \in LabelPieces}

Labels == LabelsOf(MaxLabelParts)

\* خیلی خوشحالم و راضی
PersianJoyText ==
    <<1582, 1740, 1604, 1740, 32, 1582, 1608, 1588, 1581, 1575, 1604, 1605, 32,
      1608, 32, 1585, 1575, 1590, 1740>>

\* من ناراحت و عصبانی هستم
PersianSadAngryText ==
    <<1605, 1606, 32, 1606, 1575, 1585, 1575, 1581, 1578, 32, 1608, 32, 1593,
      1589, 1576, 1575, 1606, 1740, 32, 1607, 1587, 1578, 1605>>

AnxiousText == Text("I felt a bit anxious before the meeting but it went well.")

\* Blank texts: empty, spaces, tab and line feed, a no-break space.
BlankTexts == {<<>>, <<32, 32>>, <<9, 10, 32>>, <<160>>}

\* The texts given to detect: blank ones, Latin ones, Persian ones, mixed
\* ones, and single characters at and around the ends of U+0600..U+06FF
\* (U+FB56 is an Arabic presentation form outside that block).
DetectTexts ==
    BlankTexts \cup
    {Text("hello"), Text("  Hello World "), Text("12345"), AnxiousText,
     PersianJoyText, PersianSadAngryText,
     Text("hello ") \o <<1587, 1604, 1575, 1605>>, <<32, 1587, 32>>,
     <<1535>>, <<1536>>, <<1791>>, <<1792>>, <<64342>>}

\* What langdetect.detect does when called.
DetectorOutcomes ==
    [kind : {"return"}, value : {"en", "fa", "de", "ar", "zh-cn"}]
        \cup {[kind |-> "raise", value |-> "LangDetectException"]}

\* ناراحت
PersianSadText == <<1606, 1575, 1585, 1575, 1581, 1578>>

\* The texts given to predict.
PredictTexts ==
    {<<>>, <<9, 10, 32>>, Text(" so HAPPY"), Text("12345"), PersianSadText}

\* The languages given to predict: the two detect returns and one more.
PredictLanguages == {"en", "fa", "de"}

\* What the model's pipeline does when called.
Inferences ==
    {[kind |-> "raise", outputs |-> <<>>],
     [kind |-> "return", outputs |-> <<>>],
     [kind |-> "return", outputs |-> <<List(<<>>)>>],
     [kind |-> "return", outputs |-> <<DictWithoutLabel>>],
     [kind |-> "return", outputs |-> <<Dict("joy"), Dict("other")>>],
     [kind |-> "return", outputs |-> <<Dict("label_x"), Dict("other")>>],
     [kind |-> "return", outputs |-> <<List(<<Dict("LABEL_5"), Dict("other")>>)>>],
     [kind |-> "return", outputs |-> <<List(<<Dict("fear")>>)>>]}

\* What startup can meet.  Nothing loads when the import fails, and a config
\* is read only of a model that loaded.
Mets ==
    {m \in [import_ok : BOOLEAN, loaded : [DEFAULT_MODELS -> BOOLEAN],
            en_has_id2label : BOOLEAN] :
        /\ ~m.import_ok => \A l \in DEFAULT_MODELS : ~m.loaded[l]
        /\ m.en_has_id2label => m.loaded["en"]}

\* Startup without the model mode: nothing is imported or loaded.
NotAttempted ==
    [import_ok |-> FALSE, loaded |-> [l \in DEFAULT_MODELS |-> FALSE],
     en_has_id2label |-> FALSE]

\* The default of the parameter limit (recommend and analyze_and_recommend).
DefaultLimit == 6

\* How many items a catalog of the recommender's checks has, at most.
MaxCatalog == 2

\* The largest limit given to recommend.
MaxLimit == 2

\* How many requests are in flight together, at most.
MaxThreads == 2

\* A well-formed catalog record.
Item(title, creator, type, mood, language) ==
    [title |-> title, creator |-> creator, type |-> type, mood |-> mood,
     language |-> language]

SongJoyEn == Item("Happy", "Pharrell Williams", "song", "joy", "en")

SongNeutralEn == Item("Clocks", "Coldplay", "song", "neutral", "en")

MovieNeutralFa == Item("Taste of Cherry", "Abbas Kiarostami", "movie", "neutral", "fa")

\* A record whose type is neither song nor movie.
PodcastNeutralEn == Item("Serial", "Sarah Koenig", "podcast", "neutral", "en")

\* A record whose mood is none of the six.
OddMood == Item("Blue", "Joni Mitchell", "song", "melancholy", "en")

\* A record without the field creator.
NoCreator ==
    [title |-> "Untitled", type |-> "song", mood |-> "neutral", language |-> "en"]

\* A record with a field the dataclass does not have.
ExtraYear ==
    [title |-> "Amelie", creator |-> "Jean-Pierre Jeunet", type |-> "movie",
     mood |-> "joy", language |-> "en", year |-> "2001"]

\* A record without the field mood.
NoMood ==
    [title |-> "Ambient 1", creator |-> "Brian Eno", type |-> "song", language |-> "en"]

CatalogItems ==
    {SongJoyEn, SongNeutralEn, MovieNeutralFa, PodcastNeutralEn, OddMood, NoCreator,
     ExtraYear, NoMood}

RECURSIVE CatalogsOf(_)
\* What json.load can return for catalog.json (and [] when the file is
\* missing): the lists of at most n different records.
CatalogsOf(n) ==
    IF n = 0 THEN {<<>>}
    ELSE CatalogsOf(n - 1) \cup
         {c \in {Append(d, item) : d \in CatalogsOf(n - 1), item \in CatalogItems} :
             /\ Len(c) = n
             /\ \A i, j \in 1..n : c[i] = c[j] => i = j}

\* The arguments given to recommend.
RecommendMoods == {"joy", "neutral", "melancholy", "Joy"}

MediaTypes == {None, "", "song", "podcast"}

ResponseLanguages == {None, "fa", "en", "both"}

Limits == -1..MaxLimit

\* The catalogs of the request pipeline's checks.
ServiceCatalogs ==
    {<<>>,
     <<SongNeutralEn, MovieNeutralFa>>,
     <<SongJoyEn, PodcastNeutralEn, SongNeutralEn>>,
     <<MovieNeutralFa, PodcastNeutralEn, SongNeutralEn>>,
     <<NoCreator, SongJoyEn>>,
     <<ExtraYear, OddMood, NoMood>>}

\* What startup meets in the request pipeline's checks: the import fails;
\* both models load; only the Persian model loads.
ServiceMets ==
    {m \in Mets : \/ ~m.import_ok
                  \/ m.loaded["en"] /\ m.loaded["fa"] /\ m.en_has_id2label
                  \/ ~m.loaded["en"] /\ m.loaded["fa"]}

\* The texts of the requests.
ServiceTexts == {<<>>, Text(" so HAPPY"), Text("12345"), PersianSadText}

\* No langdetect call and no inference is made.
Unused == [kind |-> "unused", value |-> "", outputs |-> <<>>]

\* What langdetect does on the text, when detect calls it.
LangdetectOn(text) ==
    IF "langdetect" \in detect_calls(text) THEN DetectorOutcomes ELSE {Unused}

\* What the pipeline does on the text, when predict calls it.
InferenceOn(self, text, language) ==
    IF "model" \in predict_calls(self, text, language) THEN Inferences ELSE {Unused}

\* The fields of a request's frame before they are assigned.
NoPrediction == [label |-> "", mood |-> "", source |-> ""]

NoList == [aliases_catalog |-> FALSE, items |-> <<>>]

\* The frame of a request that has arrived: how it entered (the /predict
\* handler or a call of analyze_and_recommend), what it was given, and the
\* locals of the pipeline, not assigned yet.
Request(entry, text, media_type, limit, response_language) ==
    [pc |-> "pending", entry |-> entry, text |-> text,
     given |-> [media_type |-> media_type, limit |-> limit,
                response_language |-> response_language],
     media_type |-> None, limit |-> DefaultLimit, response_language |-> None,
     language |-> "", prediction |-> NoPrediction, filtered |-> NoList,
     result |-> NotCalled, stats |-> NotCalled]

\* The /predict form has no limit field.
HttpRequests(texts, media_types, response_languages) ==
    {Request("http", text, media_type, DefaultLimit, response_language) :
        text \in texts, media_type \in media_types,
        response_language \in response_languages}

CallRequests(texts, media_types, limits, response_languages) ==
    {Request("call", text, media_type, limit, response_language) :
        text \in texts, media_type \in media_types, limit \in limits,
        response_language \in response_languages}

ServiceRequests ==
    HttpRequests(ServiceTexts, {None, "song", "podcast"}, {"both", "fa", "de"})
      \cup CallRequests(ServiceTexts, {None, "", "song", "podcast"},
                        {0, MaxLimit, DefaultLimit}, {None, "en", "both"})

\* The requests, catalogs and startups of the concurrency checks.
ConcurrentRequests ==
    HttpRequests({<<>>, Text(" so HAPPY")}, {None}, {"both"})
      \cup CallRequests({<<>>}, {None}, {1}, {None})

ConcurrentCatalogs ==
    {<<SongNeutralEn, MovieNeutralFa>>, <<SongJoyEn, SongNeutralEn, MovieNeutralFa>>}

ConcurrentMets == {m \in Mets : ~m.import_ok}

\* How many pieces a text given to the lexicon is made of, at most.
MaxLexParts == 2

\* Pieces of the lexicon's texts: keywords of several moods, in both cases
\* and both languages, pieces that make a keyword only when joined ("sad"
\* and "own" hold "down"), and pieces of no keyword.
LexPieces ==
    {Text("happy"), Text("GOOD"), Text("sad"), Text("SAD"), Text("own"),
     Text("angry"), Text("anxious"), Text("ok"), Text("excited"), Text(" "),
     Text("x"),
     PersianSadText,
     <<1605, 1740, 32, 1578, 1585, 1587, 1605>>,     \* می ترسم
     <<1582, 1608, 1576>>}                           \* خوب

RECURSIVE LexTextsOf(_)
\* The texts made of at most n pieces.
LexTextsOf(n) ==
    IF n = 0 THEN {<<>>}
    ELSE LexTextsOf(n - 1) \cup {a \o b : a \in LexTextsOf(n - 1), b \in LexPieces}

LexTexts == LexTextsOf(MaxLexParts)

\* The classifiers startup can leave.
Classifiers ==
    {TextEmotionClassifier(TRUE, m) : m \in Mets}
        \cup {TextEmotionClassifier(FALSE, NotAttempted)}

(***************************************************************************)
(* The variables a specification does not use stay as they are here.       *)
(***************************************************************************)

PureIdle == arg = NotCalled /\ out = NotCalled

ClassifierIdle ==
    /\ use_transformers = FALSE
    /\ pipelines = {}
    /\ id2label = EmptyDict
    /\ load_outcome = NotCalled
    /\ resp = NotCalled
    /\ raised_before = {}

RecommenderIdle == catalog = <<>> /\ catalog0 = <<>> /\ rec_call = NotCalled

ServiceIdle == req = EmptyDict

pure_vars == <<arg, out>>

classifier_vars ==
    <<use_transformers, pipelines, id2label, load_outcome, resp, raised_before>>

recommender_vars == <<catalog, catalog0, rec_call>>

(***************************************************************************)
(* map_label_to_mood applied to a label.                                   *)
(***************************************************************************)

InitMap ==
    /\ arg \in [fn : {"map_label_to_mood"}, language : {"en", "fa"}, label : Labels]
    /\ out = NotCalled
    /\ ClassifierIdle /\ RecommenderIdle /\ ServiceIdle

MapLabelToMood ==
    /\ out.kind = "not_called"
    /\ out' = Returned(map_label_to_mood(arg.language, arg.label))
    /\ UNCHANGED <<arg, classifier_vars, recommender_vars, req>>

NextMap == MapLabelToMood

SpecMap == InitMap /\ [][NextMap]_vars

(***************************************************************************)
(* _resolve_with_lexicon applied to a model result and a lexicon result.   *)
(***************************************************************************)

InitResolve ==
    /\ arg \in [fn : {"_resolve_with_lexicon"},
                tf_label : {"joy", "LABEL_2", "surprise"}, tf_mood : SUPPORTED_MOODS,
                lex_label : {"sadness", "neutral", "excitement"},
                lex_mood : SUPPORTED_MOODS]
    /\ out = NotCalled
    /\ ClassifierIdle /\ RecommenderIdle /\ ServiceIdle

ResolveWithLexicon ==
    /\ out.kind = "not_called"
    /\ out' = Returned(_resolve_with_lexicon(arg.tf_label, arg.tf_mood,
                                             arg.lex_label, arg.lex_mood))
    /\ UNCHANGED <<arg, classifier_vars, recommender_vars, req>>

NextResolve == ResolveWithLexicon

SpecResolve == InitResolve /\ [][NextResolve]_vars

(***************************************************************************)
(* LanguageDetector.detect applied to a text.                              *)
(***************************************************************************)

InitDetect ==
    /\ arg \in [fn : {"detect"}, text : DetectTexts, langdetect : DetectorOutcomes]
    /\ out = NotCalled
    /\ ClassifierIdle /\ RecommenderIdle /\ ServiceIdle

Detect ==
    /\ out.kind = "not_called"
    /\ out' = Returned(detect(arg.text, arg.langdetect))
    /\ UNCHANGED <<arg, classifier_vars, recommender_vars, req>>

NextDetect == Detect

SpecDetect == InitDetect /\ [][NextDetect]_vars

(***************************************************************************)
(* The classifier: constructed at startup, then any sequence of predict    *)
(* requests.                                                               *)
(***************************************************************************)

\* The classifier's state as predict reads it.
Self ==
    [use_transformers |-> use_transformers, pipelines |-> pipelines,
     id2label |-> id2label]

\* The state after TextEmotionClassifier(use_transformers=u) met m.
Constructed(u, m) ==
    LET c == TextEmotionClassifier(u, m)
    IN  /\ use_transformers = c.use_transformers
        /\ pipelines = c.pipelines
        /\ id2label = c.id2label
        /\ load_outcome = [use_transformers_arg |-> u, met |-> m]

InitClassifier ==
    /\ \/ \E m \in Mets : Constructed(TRUE, m)
       \/ Constructed(FALSE, NotAttempted)
    /\ resp = NotCalled
    /\ raised_before = {}
    /\ PureIdle /\ RecommenderIdle /\ ServiceIdle

\* The last request consulted the model and its try block raised.
LastRaised ==
    /\ resp.kind = "predict"
    /\ "model" \in resp.calls
    /\ TryRaises(resp.inference)

\* One predict request.  predict assigns no attribute of the classifier.
Predict ==
    \E text \in PredictTexts, language \in PredictLanguages, inference \in Inferences :
        /\ resp' = [kind |-> "predict", text |-> text, language |-> language, inference |-> inference,
                    calls |-> predict_calls(Self, text, language),
                    result |-> predict(Self, text, language, inference)]
        /\ raised_before' =
              raised_before \cup (IF LastRaised THEN {resp.language} ELSE {})
        /\ UNCHANGED <<use_transformers, pipelines, id2label, load_outcome>>
        /\ UNCHANGED <<pure_vars, recommender_vars, req>>

NextClassifier == Predict

SpecClassifier == InitClassifier /\ [][NextClassifier]_vars

(***************************************************************************)
(* The recommender: constructed on a catalog, then one call of recommend   *)
(* or of get_stats.                                                        *)
(***************************************************************************)

InitRecommender ==
    /\ catalog \in CatalogsOf(MaxCatalog)
    /\ catalog0 = catalog
    /\ rec_call = NotCalled
    /\ PureIdle /\ ClassifierIdle /\ ServiceIdle

\* Recommender.recommend(mood, media_type, limit, response_language)
Recommend ==
    /\ rec_call.kind = "not_called"
    /\ \E mood \in RecommendMoods, media_type \in MediaTypes, limit \in Limits,
          response_language \in ResponseLanguages :
          \E filtered \in {Filtered(catalog, mood, media_type, response_language)} :
             \E shuffled \in Shuffles(filtered.items) :
                /\ catalog' = ShuffleInPlace(catalog, filtered, shuffled)
                /\ rec_call' = [kind |-> "recommend", mood |-> mood,
                                media_type |-> media_type, limit |-> limit,
                                response_language |-> response_language,
                                result |-> Recommendations(Picks(shuffled, limit))]
    /\ UNCHANGED <<catalog0, pure_vars, classifier_vars, req>>

\* Recommender.get_stats()
GetStats ==
    /\ rec_call.kind = "not_called"
    /\ rec_call' = [kind |-> "get_stats", result |-> get_stats(catalog)]
    /\ UNCHANGED <<catalog, catalog0, pure_vars, classifier_vars, req>>

NextRecommender == Recommend \/ GetStats

SpecRecommender == InitRecommender /\ [][NextRecommender]_vars

(***************************************************************************)
(* The request pipeline: the service is constructed at startup (app.py     *)
(* line 24: MoodService(use_transformers=True)), and each request runs     *)
(* analyze_and_recommend in a worker thread, one statement at a time.      *)
(***************************************************************************)

InitPipeline(catalogs, mets, requests, threads) ==
    /\ \E m \in mets : Constructed(TRUE, m)
    /\ resp = NotCalled
    /\ raised_before = {}
    /\ catalog \in catalogs
    /\ catalog0 = catalog
    /\ rec_call = NotCalled
    /\ req \in [threads -> requests]
    /\ PureIdle

\* app.py lines 171-180: the handler coerces the form values and calls
\* analyze_and_recommend without a limit.
HttpPredict(t) ==
    /\ req[t].pc = "pending"
    /\ req[t].entry = "http"
    /\ req' = [req EXCEPT
                 ![t].pc = "analyze",
                 ![t].media_type = CoerceMediaType(req[t].given.media_type),
                 ![t].limit = DefaultLimit,
                 ![t].response_language =
                     CoerceResponseLanguage(req[t].given.response_language)]
    /\ UNCHANGED <<pure_vars, classifier_vars, recommender_vars>>

\* service.py lines 34-40: a call of analyze_and_recommend with its arguments.
AnalyzeAndRecommend(t) ==
    /\ req[t].pc = "pending"
    /\ req[t].entry = "call"
    /\ req' = [req EXCEPT
                 ![t].pc = "analyze",
                 ![t].media_type = req[t].given.media_type,
                 ![t].limit = req[t].given.limit,
                 ![t].response_language = req[t].given.response_language]
    /\ UNCHANGED <<pure_vars, classifier_vars, recommender_vars>>

\* service.py lines 41-42: detect, then predict.
Analyze(t) ==
    /\ req[t].pc = "analyze"
    /\ \E langdetect \in LangdetectOn(req[t].text) :
          \E language \in {detect(req[t].text, langdetect)} :
             \E inference \in InferenceOn(Self, req[t].text, language) :
                req' = [req EXCEPT
                          ![t].pc = "filter",
                          ![t].language = language,
                          ![t].prediction =
                              predict(Self, req[t].text, language, inference)]
    /\ UNCHANGED <<pure_vars, classifier_vars, recommender_vars>>

\* recommender.py lines 66-78.
Filter(t) ==
    /\ req[t].pc = "filter"
    /\ req' = [req EXCEPT
                 ![t].pc = "shuffle",
                 ![t].filtered = Filtered(catalog, req[t].prediction.mood,
                                          req[t].media_type, req[t].response_language)]
    /\ UNCHANGED <<pure_vars, classifier_vars, recommender_vars>>

\* recommender.py line 80.
Shuffle(t) ==
    /\ req[t].pc = "shuffle"
    /\ \E shuffled \in Shuffles(ListItems(catalog, req[t].filtered)) :
          /\ catalog' = ShuffleInPlace(catalog, req[t].filtered, shuffled)
          /\ req' = [req EXCEPT ![t].pc = "pick", ![t].filtered.items = shuffled]
    /\ UNCHANGED <<catalog0, rec_call, pure_vars, classifier_vars>>

\* recommender.py lines 81-82 and service.py lines 49-57: the ServiceResult,
\* or the exception of Recommendation(**item), which nothing catches.
Return(t) ==
    /\ req[t].pc = "pick"
    /\ \E recommendations \in
            {Recommendations(Picks(ListItems(catalog, req[t].filtered), req[t].limit))} :
          req' = [req EXCEPT
                    ![t].pc = IF recommendations.kind = "returned"
                              THEN "returned" ELSE "raised",
                    ![t].result =
                        IF recommendations.kind = "returned"
                        THEN Returned([language |-> req[t].language,
                                       prediction |-> req[t].prediction,
                                       recommendations |-> recommendations.value])
                        ELSE recommendations]
    /\ UNCHANGED <<pure_vars, classifier_vars, recommender_vars>>

\* app.py line 182: the handler reads the statistics for the page.
RenderStats(t) ==
    /\ req[t].pc = "returned"
    /\ req[t].entry = "http"
    /\ req' = [req EXCEPT ![t].pc = "rendered",
                          ![t].stats = Returned(get_stats(catalog))]
    /\ UNCHANGED <<pure_vars, classifier_vars, recommender_vars>>

NextPipeline(threads) ==
    \E t \in threads :
        \/ HttpPredict(t)
        \/ AnalyzeAndRecommend(t)
        \/ Analyze(t)
        \/ Filter(t)
        \/ Shuffle(t)
        \/ Return(t)
        \/ RenderStats(t)

\* One request.
InitService == InitPipeline(ServiceCatalogs, ServiceMets, ServiceRequests, {1})

NextService == NextPipeline({1})

SpecService == InitService /\ [][NextService]_vars

\* Requests in flight together, their statements interleaved.
InitConcurrent ==
    InitPipeline(ConcurrentCatalogs, ConcurrentMets, ConcurrentRequests, 1..MaxThreads)

NextConcurrent == NextPipeline(1..MaxThreads)

SpecConcurrent == InitConcurrent /\ [][NextConcurrent]_vars

(***************************************************************************)
(* The lexicon predictor: _lexicon_label applied to a text and a language, *)
(* and predict applied to a text, a language and a classifier.             *)
(***************************************************************************)

InitLexicon ==
    /\ \/ arg \in [fn : {"_lexicon_label"}, text : LexTexts,
                   language : PredictLanguages,
                   self : {TextEmotionClassifier(FALSE, NotAttempted)},
                   inference : {Unused}]
       \/ arg \in [fn : {"predict"},
                   text : {AnxiousText, Text(" so HAPPY"), <<32>>},
                   language : {"en", "fa"}, self : Classifiers,
                   inference : Inferences]
    /\ out = NotCalled
    /\ ClassifierIdle /\ RecommenderIdle /\ ServiceIdle

LexiconLabel ==
    /\ out.kind = "not_called"
    /\ arg.fn = "_lexicon_label"
    /\ out' = Returned(_lexicon_label(arg.text, arg.language))
    /\ UNCHANGED <<arg, classifier_vars, recommender_vars, req>>

PredictOnce ==
    /\ out.kind = "not_called"
    /\ arg.fn = "predict"
    /\ out' = Returned(predict(arg.self, arg.text, arg.language, arg.inference))
    /\ UNCHANGED <<arg, classifier_vars, recommender_vars, req>>

NextLexicon == LexiconLabel \/ PredictOnce

SpecLexicon == InitLexicon /\ [][NextLexicon]_vars

(***************************************************************************)
(* Claims about the pure functions.                                        *)
(***************************************************************************)

NegativeMoods == {"anger", "sadness", "fear"}

PositiveMoods == {"joy", "excitement"}

\* The arbitration table of C1 up to its last clause, for one call.
C1_Table ==
    LET tf  == arg.tf_mood
        lex == arg.lex_mood
        acceptTf  == <<arg.tf_label, tf, "transformer">>
        acceptLex(source) == <<arg.lex_label, lex, source>>
    IN  out.value =
            IF tf = lex THEN acceptTf
            ELSE IF lex \in NegativeMoods /\ tf \in {"neutral", "joy", "excitement"}
            THEN acceptLex("lexicon_override_neg")
            ELSE IF lex \in PositiveMoods /\ tf \in {"sadness", "anger", "fear", "neutral"}
            THEN acceptLex("lexicon_override_pos")
            ELSE acceptTf

\* C1 as stated: the table, and among the cases no rule matches there is
\* one where tf.mood is neutral and lex.mood is a different mood, decided
\* for the model with source "transformer".
C1_Original ==
    out.kind = "returned" =>
        /\ C1_Table
        /\ \E lex \in SUPPORTED_MOODS \ {"neutral"} :
              _resolve_with_lexicon(arg.tf_label, "neutral", arg.lex_label, lex)
                  = <<arg.tf_label, "neutral", "transformer">>

\* C1 as amended: the table holds for every pair of moods; the cases no rule
\* matches are exactly those where the moods differ and lex.mood is neutral,
\* or both are negative, or both are positive; tf.mood is neutral in none of
\* them: a neutral model result that differs from the lexicon's is always
\* overridden by the lexicon.
C1_Arbitration ==
    out.kind = "returned" =>
        /\ C1_Table
        /\ (arg.tf_mood # arg.lex_mood /\ out.value[3] = "transformer")
              <=> \/ arg.lex_mood = "neutral" /\ arg.tf_mood # "neutral"
                  \/ arg.tf_mood # arg.lex_mood
                     /\ {arg.tf_mood, arg.lex_mood} \subseteq NegativeMoods
                  \/ arg.tf_mood # arg.lex_mood
                     /\ {arg.tf_mood, arg.lex_mood} \subseteq PositiveMoods
        /\ (arg.tf_mood = "neutral" /\ arg.lex_mood # "neutral")
              => /\ out.value[1] = arg.lex_label
                 /\ out.value[2] = arg.lex_mood
                 /\ out.value[3] \in {"lexicon_override_neg", "lexicon_override_pos"}

\* A neutral model result met a joyful lexicon result and the lexicon won.
C1_Witness ==
    /\ out.kind = "returned"
    /\ arg.tf_mood = "neutral"
    /\ arg.lex_mood = "joy"
    /\ out.value = <<arg.lex_label, "joy", "lexicon_override_pos">>

\* C7: detect returns "en" or "fa" and nothing else: "fa" for a text with a
\* character of U+0600..U+06FF whatever the statistical detector answers,
\* "en" for an empty or whitespace-only text, and otherwise the statistical
\* answer, "en" standing for a failure and for every answer other than "en"
\* and "fa".
C7_Detect ==
    out.kind = "returned" =>
        LET text == arg.text
            blank == \A i \in 1..Len(text) : text[i] \in UnicodeSpace
            persian == \E i \in 1..Len(text) : 1536 <= text[i] /\ text[i] <= 1791
        IN  /\ out.value \in {"en", "fa"}
            /\ persian => out.value = "fa"
            /\ blank => out.value = "en"
            /\ (~persian /\ ~blank) =>
                  out.value = IF arg.langdetect.kind = "return"
                                 /\ arg.langdetect.value \in {"en", "fa"}
                              THEN arg.langdetect.value
                              ELSE "en"

\* A text of Latin and Persian letters for which the statistical detector
\* would answer German, detected as Persian.
C7_Witness ==
    /\ out.kind = "returned"
    /\ arg.text = Text("hello ") \o <<1587, 1604, 1575, 1605>>
    /\ arg.langdetect = [kind |-> "return", value |-> "de"]
    /\ out.value = "fa"

\* The label of C10 as the function normalises it, written by position.
C10_Normalised(label) ==
    LET n == Len(label)
        inner == {i \in 1..n : CharAt(label, i) \notin AsciiSpace}
        first == CHOOSE i \in inner : \A j \in inner : i <= j
        last  == CHOOSE i \in inner : \A j \in inner : j <= i
    IN  IF inner = {} THEN "" ELSE StrLower(SubSeq(label, first, last))

\* C10: map_label_to_mood trims and lowercases the label and returns the
\* mood of the key equal to it if there is one, else the mood of the first
\* key in declaration order that is a substring of it, else "neutral"; the
\* result is one of the six moods, and each mood name maps to itself.
C10_MapLabelToMood ==
    out.kind = "returned" =>
        LET norm  == C10_Normalised(arg.label)
            exact == {i \in 1..Len(LABEL_MAP) : LABEL_MAP[i][1] = norm}
            subs  == {i \in 1..Len(LABEL_MAP) : StrContains(norm, LABEL_MAP[i][1])}
        IN  /\ out.value \in SUPPORTED_MOODS
            /\ exact # {} => \A i \in exact : out.value = LABEL_MAP[i][2]
            /\ (exact = {} /\ subs # {}) =>
                  \E i \in subs : /\ \A j \in subs : i <= j
                                  /\ out.value = LABEL_MAP[i][2]
            /\ (exact = {} /\ subs = {}) => out.value = "neutral"
            /\ arg.label \in SUPPORTED_MOODS => out.value = arg.label
            /\ arg.label = "LOVE " => out.value = "joy"
            /\ arg.label = "sadHappy" => out.value = "joy"

\* A label with no exact match that holds a sadness key before a joy key:
\* the joy key comes first in the dictionary and decides.
C10_Witness ==
    /\ out.kind = "returned"
    /\ arg.label = "sadHappy"
    /\ out.value = "joy"

(***************************************************************************)
(* Claims about the classifier.                                            *)
(***************************************************************************)

\* The lexicon's answer for the last request.
LexiconResult ==
    LET lex_label == _lexicon_label(TextStrip(resp.text), resp.language)
    IN  [label |-> lex_label,
         mood |-> map_label_to_mood(resp.language, lex_label),
         source |-> "lexicon"]

ModelSources == {"transformer", "lexicon_override_neg", "lexicon_override_pos"}

\* The language's model did not load at startup.
LoadFailed(language) ==
    /\ load_outcome.use_transformers_arg
    /\ language \in DEFAULT_MODELS
    /\ ~load_outcome.met.loaded[language]

\* C3: a request with non-blank text for language L gets exactly the lexicon
\* label, the lexicon mood and source "lexicon" when model mode is off, L has
\* no loaded model, or its inference raises; the classifier's state is what
\* startup left, whatever raised before, so a request for L whose inference
\* succeeds is decided by the arbitration also after an earlier one raised;
\* and a language whose model failed to load never gets a model source.
C3_LexiconFallback ==
    /\ Self = TextEmotionClassifier(load_outcome.use_transformers_arg, load_outcome.met)
    /\ (resp.kind = "predict" /\ TextStrip(resp.text) # <<>>) =>
          LET L == resp.language
          IN  /\ (~use_transformers \/ L \notin pipelines
                     \/ resp.inference.kind = "raise")
                    => resp.result = LexiconResult
              /\ (use_transformers /\ L \in pipelines /\ ~TryRaises(resp.inference))
                    => /\ resp.result.source \in ModelSources
                       /\ resp.result =
                            Arbitrated(id2label, L, resp.inference,
                                       LexiconResult.label, LexiconResult.mood)
              /\ LoadFailed(L) => resp.result.source \notin ModelSources

\* A request for a language is decided by the arbitration after an earlier
\* request for the same language raised.
C3_Witness ==
    /\ resp.kind = "predict"
    /\ resp.language \in raised_before
    /\ resp.result.source = "lexicon_override_neg"
    /\ LoadFailed("en")

\* C4: for every empty or whitespace-only text, every language and every
\* state of the models, predict returns label neutral, mood neutral, source
\* fallback, and consults neither the lexicon nor the model.
C4_BlankFallback ==
    (resp.kind = "predict" /\ \A i \in 1..Len(resp.text) : resp.text[i] \in UnicodeSpace)
        => /\ resp.result = [label |-> "neutral", mood |-> "neutral", source |-> "fallback"]
           /\ resp.calls = {}

\* A whitespace-only text for a language whose model is loaded, while the
\* model would have answered joy.
C4_Witness ==
    /\ resp.kind = "predict"
    /\ resp.text = <<9, 10, 32>>
    /\ use_transformers /\ resp.language \in pipelines
    /\ resp.inference = [kind |-> "return", outputs |-> <<Dict("joy"), Dict("other")>>]
    /\ resp.result.source = "fallback"

(***************************************************************************)
(* Claims about the recommender.                                           *)
(***************************************************************************)

\* The items of a list, as a set.
Range(items) == {items[i] : i \in 1..Len(items)}

\* C6: for every catalog, every mood string and every limit N >= 0, a
\* recommend call that returns hands back at most N items, each of them an
\* item of the catalog whose mood is the given mood when that is one of the
\* six moods and neutral otherwise.
C6_Recommend ==
    (rec_call.kind = "recommend" /\ rec_call.limit >= 0
        /\ rec_call.result.kind = "returned") =>
       /\ Len(rec_call.result.value) <= rec_call.limit
       /\ \A i \in 1..Len(rec_call.result.value) :
             /\ rec_call.result.value[i] \in Range(catalog0)
             /\ rec_call.result.value[i].mood =
                   IF rec_call.mood \in
                        {"joy", "sadness", "anger", "fear", "neutral", "excitement"}
                   THEN rec_call.mood ELSE "neutral"

\* An unsupported mood and the limit 1 on a catalog of two neutral items:
\* one of the two came back.
C6_Witness ==
    /\ rec_call.kind = "recommend"
    /\ rec_call.mood = "melancholy"
    /\ rec_call.limit = 1
    /\ rec_call.media_type = None
    /\ rec_call.response_language = "both"
    /\ catalog0 = <<SongNeutralEn, MovieNeutralFa>>
    /\ rec_call.result = Returned(<<MovieNeutralFa>>)

\* The mood of the record is none of the six, or the record has no mood.
UnrecognizedMood(item) == Get(item, "mood", None) \notin SUPPORTED_MOODS

\* C8 (as the spec states it): the mood keys get_stats counts are among the
\* six moods, a record whose mood is unrecognized or missing is counted under
\* neutral, and recommend("neutral") without other filters and with room for
\* the whole catalog returns it.
C8_Original ==
    /\ rec_call.kind = "get_stats" =>
          /\ DOMAIN rec_call.result.moods \subseteq SUPPORTED_MOODS
          /\ \A k \in DOMAIN rec_call.result.moods :
                rec_call.result.moods[k] =
                   Cardinality({i \in 1..Len(catalog0) :
                       \/ Get(catalog0[i], "mood", None) = k
                       \/ k = "neutral" /\ UnrecognizedMood(catalog0[i])})
    /\ (rec_call.kind = "recommend" /\ rec_call.mood = "neutral"
           /\ rec_call.media_type = None /\ rec_call.response_language = None
           /\ rec_call.limit >= Len(catalog0)) =>
          /\ rec_call.result.kind = "returned"
          /\ \A i \in 1..Len(catalog0) :
                UnrecognizedMood(catalog0[i]) =>
                   catalog0[i] \in Range(rec_call.result.value)

(***************************************************************************)
(* Claims about the request pipeline.                                      *)
(***************************************************************************)

\* The request has left analyze_and_recommend.
Left(t) == req[t].pc \in {"returned", "rendered", "raised"}

\* The request is past the filters of recommend.
PastFilter(t) == req[t].pc \in {"shuffle", "pick", "returned", "rendered", "raised"}

\* C2 (as the spec states it): every request that has left
\* analyze_and_recommend has a ServiceResult, with a language, a prediction
\* {label, mood, source} and a list of recommendations; none has raised.
C2_Original ==
    \A t \in DOMAIN req :
        Left(t) =>
           /\ req[t].result.kind = "returned"
           /\ req[t].result.value.language \in supported
           /\ DOMAIN req[t].result.value.prediction = {"label", "mood", "source"}
           /\ \A i \in 1..Len(req[t].result.value.recommendations) :
                 DOMAIN req[t].result.value.recommendations[i] = RecommendationFields

\* The candidates of the request's mood under a type and a language filter.
Candidates(t, media_type, response_language) ==
    Filtered(catalog0, req[t].prediction.mood, media_type, response_language).items

\* C5 (as the spec states it): a media_type outside {song, movie} or a
\* response_language outside {fa, en} given to the pipeline, through the
\* handler or in a call of analyze_and_recommend, leaves recommend with the
\* candidates it has when that parameter is absent.
C5_Original ==
    \A t \in DOMAIN req :
        PastFilter(t) =>
           /\ req[t].given.media_type \notin {"song", "movie"} =>
                 req[t].filtered.items \in
                    Shuffles(Candidates(t, None, req[t].response_language))
           /\ req[t].given.response_language \notin {"fa", "en"} =>
                 req[t].filtered.items \in
                    Shuffles(Candidates(t, req[t].media_type, None))

\* C5: a response_language outside {fa, en}, submitted to the /predict
\* handler or passed to analyze_and_recommend, leaves recommend with the
\* candidates it has without a content-language filter.  A media_type
\* outside {song, movie} leaves recommend with the candidates it has without
\* a type filter when it is submitted to the handler, or is the empty string;
\* any other one passed to analyze_and_recommend is the type the candidates
\* must have.
C5_Unfiltered ==
    \A t \in DOMAIN req :
        PastFilter(t) =>
           /\ req[t].given.response_language \notin {"fa", "en"} =>
                 req[t].filtered.items \in
                    Shuffles(Candidates(t, req[t].media_type, None))
           /\ (req[t].given.media_type \notin {"song", "movie"}
                 /\ (req[t].entry = "http" \/ req[t].given.media_type \in {None, ""})) =>
                 req[t].filtered.items \in
                    Shuffles(Candidates(t, None, req[t].response_language))
           /\ (req[t].entry = "call" /\ req[t].given.media_type \notin {None, ""}) =>
                 /\ req[t].filtered.items \in
                       Shuffles(WhereEq(Candidates(t, None, req[t].response_language),
                                        "type", req[t].given.media_type))
                 /\ \A i \in 1..Len(req[t].filtered.items) :
                       req[t].filtered.items[i].type = req[t].given.media_type

\* A form with media_type podcast and response_language de was answered
\* with the movie, the podcast and the song of the neutral catalog.
C5_Witness ==
    \E t \in DOMAIN req :
        /\ req[t].entry = "http"
        /\ req[t].given.media_type = "podcast"
        /\ req[t].given.response_language = "de"
        /\ req[t].pc = "rendered"
        /\ catalog0 = <<MovieNeutralFa, PodcastNeutralEn, SongNeutralEn>>
        /\ req[t].result.value.recommendations =
              <<SongNeutralEn, MovieNeutralFa, PodcastNeutralEn>>

\* C9: the catalog stays what startup loaded, in items and in order, through
\* every interleaving of the requests; what a request returns is a shuffle
\* of its own candidates in the startup catalog cut to its limit, and the
\* statistics are those of the startup catalog.
C9_CatalogReadOnly ==
    /\ catalog = catalog0
    /\ \A t \in DOMAIN req :
          /\ req[t].pc \in {"returned", "rendered"} =>
                \E shuffled \in Shuffles(Candidates(t, req[t].media_type,
                                                    req[t].response_language)) :
                   req[t].result.value.recommendations = Picks(shuffled, req[t].limit)
          /\ req[t].pc = "rendered" =>
                req[t].stats = Returned(get_stats(catalog0))

\* Two requests ran to their ends on the catalog of two neutral items: one
\* was answered with both in the other order, one with a single item.
C9_Witness ==
    \E t1, t2 \in DOMAIN req :
        /\ t1 # t2
        /\ catalog0 = <<SongNeutralEn, MovieNeutralFa>>
        /\ req[t1].pc = "rendered"
        /\ req[t1].result.value.recommendations = <<MovieNeutralFa, SongNeutralEn>>
        /\ req[t2].pc = "returned"
        /\ req[t2].limit = 1
        /\ req[t2].result.value.recommendations = <<MovieNeutralFa>>

(***************************************************************************)
(* Claims about the lexicon predictor.                                     *)
(***************************************************************************)

\* The text with its capitals A-Z replaced by their lowercase.
Lowercased(text) ==
    [i \in 1..Len(text) |-> IF text[i] \in 65..90 THEN text[i] + 32 ELSE text[i]]

\* The keyword is a run of consecutive characters of the text.
Occurs(word, txt) ==
    \E i \in 0..(Len(txt) - Len(word)) : SubSeq(txt, i + 1, i + Len(word)) = word

\* The keyword table of the language.
KeywordTable(language) == IF language = "fa" THEN PERSIAN_LEXICON ELSE ENGLISH_LEXICON

\* How many keywords of the mood in the language's table occur in the
\* lowercased text.
KeywordCount(text, language, mood) ==
    Cardinality({word \in Range(KeywordTable(language)[mood]) :
                    Occurs(word, Lowercased(text))})

TableOrder == <<"joy", "sadness", "anger", "fear", "neutral", "excitement">>

\* The mood is the answer of the counting rule: neutral when no keyword
\* occurs, else a mood of the highest count with a lower count for every
\* mood before it in table order.
IsLexiconAnswer(text, language, mood) ==
    IF \A i \in 1..6 : KeywordCount(text, language, TableOrder[i]) = 0
    THEN mood = "neutral"
    ELSE \E i \in 1..6 :
            /\ mood = TableOrder[i]
            /\ \A j \in 1..6 : KeywordCount(text, language, TableOrder[j])
                                  <= KeywordCount(text, language, mood)
            /\ \A j \in 1..(i - 1) : KeywordCount(text, language, TableOrder[j])
                                        < KeywordCount(text, language, mood)

\* The model is unavailable to the classifier for the language.
ModelUnavailable(self, language) ==
    ~self.use_transformers \/ language \notin self.pipelines

\* C11: for every text and language the lexicon predictor returns the mood
\* whose keywords of that language's table occur most often in the
\* lowercased text, the earliest in table order on a tie and neutral when
\* none occurs; predict without a model gives that mood with source lexicon
\* on a text that is not blank, and fear with source lexicon on the English
\* text "I felt a bit anxious before the meeting but it went well."
C11_LexiconPredictor ==
    /\ (out.kind = "returned" /\ arg.fn = "_lexicon_label") =>
          IsLexiconAnswer(arg.text, arg.language, out.value)
    /\ (out.kind = "returned" /\ arg.fn = "predict"
           /\ ModelUnavailable(arg.self, arg.language)) =>
          /\ TextStrip(arg.text) # <<>> =>
                /\ out.value.source = "lexicon"
                /\ out.value.label = out.value.mood
                /\ IsLexiconAnswer(arg.text, arg.language, out.value.mood)
          /\ (arg.text = AnxiousText /\ arg.language = "en") =>
                out.value = [label |-> "fear", mood |-> "fear", source |-> "lexicon"]

\* One anger keyword and one sadness keyword, the latter in capitals: the
\* counts tie and sadness, earlier in the table, is returned.
C11_Witness ==
    /\ out.kind = "returned"
    /\ arg.fn = "_lexicon_label"
    /\ arg.language = "en"
    /\ arg.text = Text("angrySAD")
    /\ KeywordCount(arg.text, "en", "anger") = 1
    /\ KeywordCount(arg.text, "en", "sadness") = 1
    /\ out.value = "sadness"

=============================================================================
